---- MODULE Spec2Model ----
(***************************************************************************)
(* Model of wallet-bot (check_balances.go): the monitoring loop of main,   *)
(* the hot-reload merge checkConfigUpdates, the RPC-health counter and the *)
(* balance-threshold flag kept per account position.                       *)
(*                                                                         *)
(* Go slices are 0-based; the sequences here are 1-based.  float64 values  *)
(* that occur (balances, thresholds) are small whole numbers.  Hours are   *)
(* carried in quarter-hours so that INTERVAL = 0.5 h is the integer 2.     *)
(* Log output (timeStamp) and the text of the messages are left out; what  *)
(* is kept of a message is its kind, its status, the price annotation and  *)
(* whether its post succeeded; what is kept of finishLog is which of its   *)
(* two lines it writes.                                                    *)
(* A Go run-time panic ends the process: pc = "crashed", panic = cause.    *)
(* The conversion of an ethereum balance (hex string, big.Int, decimal     *)
(* string, float64) is carried digit by digit in a specification of its   *)
(* own, ConvSpec, where balances beyond 2^53 occur.                        *)
(***************************************************************************)
EXTENDS Integers, Sequences, FiniteSets, TLC

(* ------------------------------ bounds -------------------------------- *)
\* longest list of network records in networks.json
MaxNetworks == 2
\* most accounts one networks.json names, over all its networks
MaxAccounts == 2
\* longest list of {denom, amount} entries in a bank-balances reply
MaxBalances == 2
\* cap on RPC_down: a failed poll is only explored below this count
MaxFailures == 3
\* the hex balances converted are a base value plus 0..MaxOffset wei
MaxOffset == 63

(* -------------------------- program constants ------------------------- *)
\* var INTERVAL float64 = 0.5 (hours), here in quarter-hours
INTERVAL == 2
\* strconv.ParseFloat(s, 64): a float64 has a significand of 53 bits
MantissaBits == 53

(* ------------------------- Go integer arithmetic ---------------------- *)
\* int(a / b) for b > 0: conversion of a float64 quotient truncates toward 0
GoInt(a, b) == IF a >= 0 THEN a \div b ELSE -((-a) \div b)

\* a % b of Go for b # 0: the result has the sign of the dividend
GoRem(a, b) ==
    LET m == IF b < 0 THEN -b ELSE b
    IN  IF a >= 0 THEN a % m ELSE -((-a) % m)

(* ------------------------- configuration source ----------------------- *)
\* An Account as json.Unmarshal fills it.  RPC_down and Down carry no json
\* tag, so the decoder matches the keys "RPC_down"/"Down" of the document
\* by field name; a document that does not name them leaves 0 and false.
Account(addr, thr, rpcDown, down) ==
    [Address |-> addr, Balance_threshold |-> thr,
     RPC_down |-> rpcDown, Down |-> down]

Network(name, type, url, thr, denom, accounts) ==
    [Name |-> name, Type |-> type, RpcUrl |-> url,
     Bad_request_threshold |-> thr, Denom |-> denom, Accounts |-> accounts]

\* The network records a networks.json may hold.  Bad_request_threshold is
\* in quarter-hours: 4 = 1 h, 6 = 1.5 h, 1 = 0.25 h (less than INTERVAL).
\* Two account objects carry run-time keys, which json.Unmarshal fills in:
\* "RPC_down": 1 (Oracle's e1) and "Down": true (cosmoshub's a2).
ConfigNetworks ==
    { Network("cosmoshub", "cosmos", "", 4, "uatom",
              <<Account("a1", 2, 0, FALSE), Account("a2", 0, 0, TRUE)>>),
      Network("cosmoshub", "cosmos", "https://lcd.example", 6, "uatom",
              <<Account("a2", 3, 0, FALSE)>>),
      Network("Oracle", "ethereum", "https://rpc.ankr.com/eth", 6, "wei",
              <<Account("e1", 2, 0, FALSE)>>),
      Network("Oracle", "ethereum", "https://rpc.ankr.com/eth", 6, "wei",
              <<Account("e1", 2, 1, FALSE)>>),
      Network("agoric", "cosmos", "", 1, "ubld",
              <<Account("g1", 2, 0, FALSE)>>),
      Network("solana", "solana", "https://api.example", 4, "lamport",
              <<Account("s1", 2, 0, FALSE)>>) }

\* Network names are unique within one document.
UniqueNames(doc) ==
    \A x, y \in DOMAIN doc : x # y => doc[x].Name # doc[y].Name

RECURSIVE CountAccounts(_, _)
CountAccounts(doc, n) ==
    IF n > Len(doc) THEN 0
    ELSE Len(doc[n].Accounts) + CountAccounts(doc, n + 1)

ConfigDocs ==
    { doc \in UNION { [1..n -> ConfigNetworks] : n \in 0..MaxNetworks } :
        UniqueNames(doc) /\ CountAccounts(doc, 1) <= MaxAccounts }

\* What os.Open + ReadAll + json.Unmarshal see: a readable, well-formed
\* document, or a file that cannot be opened or does not parse.
ConfigFiles ==
    { [readable |-> TRUE, doc |-> d] : d \in ConfigDocs }
        \cup { [readable |-> FALSE, doc |-> <<>>] }

populateUrl(network) ==
    IF network.RpcUrl = ""
    THEN "https://rest.cosmos.directory/" \o network.Name
    ELSE network.RpcUrl

\* initialiseNetworks: on an open/read/parse failure the errors are only
\* logged and the zero Networks value (no networks) is returned.
initialiseNetworks(file) ==
    IF ~file.readable
    THEN <<>>
    ELSE [n \in DOMAIN file.doc |->
            [file.doc[n] EXCEPT !.RpcUrl = populateUrl(file.doc[n])]]

\* The (network index, account index) pairs of a snapshot.
Positions(nets) ==
    UNION { { <<n, a>> : a \in DOMAIN nets[n].Accounts } : n \in DOMAIN nets }

\* checkConfigUpdates indexes current_networks with every position of the
\* freshly loaded placeholder: a position the current snapshot lacks is an
\* index out of range.
MergePanics(current, placeholder) ==
    ~(Positions(placeholder) \subseteq Positions(current))

\* A merge that carries the Down flag over but not the failure counter.
checkConfigUpdatesDownOnly(current, placeholder) ==
    [n \in DOMAIN placeholder |->
        [placeholder[n] EXCEPT !.Accounts =
            [a \in DOMAIN placeholder[n].Accounts |->
                [placeholder[n].Accounts[a] EXCEPT
                    !.Down = current[n].Accounts[a].Down]]]]

\* checkConfigUpdates, when every index is in range: the placeholder with
\* Down and RPC_down overwritten from the same position of the current
\* snapshot.
checkConfigUpdates(current, placeholder) ==
    [n \in DOMAIN placeholder |->
        [placeholder[n] EXCEPT !.Accounts =
            [a \in DOMAIN placeholder[n].Accounts |->
                [placeholder[n].Accounts[a] EXCEPT
                    !.Down = current[n].Accounts[a].Down,
                    !.RPC_down = current[n].Accounts[a].RPC_down]]]]

(* ---------------------------- chain queries --------------------------- *)
\* The denominations and amount strings a bank-balances reply may carry.
ResponseDenoms == {"uatom", "ubld"}
ResponseAmounts == {"1", "2", "3e0", "abc"}

\* The "result" strings of an eth_getBalance reply: hex quantities, ""
\* when the reply has no result (a JSON-RPC error object, a body "{}"), and
\* a result that is not a hex number.
EthResults == {"0x0", "0x1", "0x3", "", "0xzz"}

Response(denom, amount) == [Denom |-> denom, Amount |-> amount]

\* What a fetch hands to main: (responses, err).  nil marks the nil
\* *Responses that is left when neither branch of the type switch ran.
\* result is history: ethResponse.Result as getEthereumBalance decoded it
\* ("none" where no eth reply was decoded).
\* returns is FALSE for a call that never comes back to main.
Fetched(balances) ==
    [err |-> FALSE, nil |-> FALSE, Balances |-> balances, result |-> "none",
     returns |-> TRUE]
FetchFailed ==
    [err |-> TRUE, nil |-> TRUE, Balances |-> <<>>, result |-> "none",
     returns |-> TRUE]
NotFetched ==
    [err |-> FALSE, nil |-> TRUE, Balances |-> <<>>, result |-> "none",
     returns |-> TRUE]
NeverReturns ==
    [err |-> FALSE, nil |-> TRUE, Balances |-> <<>>, result |-> "none",
     returns |-> FALSE]

\* strings.TrimPrefix(result, "0x"), big.Int.SetString(hex, 16), String().
\* SetString fails on the empty string; its result is ignored and the fresh
\* big.Int still prints as "0".
HexToDec(result) ==
    CASE result = "0x0" -> "0"
      [] result = "0x1" -> "1"
      [] result = "0x3" -> "3"
      [] OTHER -> "0"

\* getEthereumBalance: an error (marshal, Post, ReadAll, Unmarshal), or one
\* entry of denom "wei" holding the decimal form of the result.  http.Post
\* uses http.DefaultClient, which has no Timeout: against an endpoint that
\* accepts the request and never answers, the call never returns.
getEthereumBalance ==
    {FetchFailed, NeverReturns} \cup
    { [Fetched(<<Response("wei", HexToDec(r))>>) EXCEPT !.result = r] :
        r \in EthResults }

\* getCosmosBalance: an error (Get, ReadAll, Unmarshal), or the decoded
\* list of balances (empty when the body holds no "balances").  The client
\* has Timeout 40 s: an endpoint that never answers is an error of Get.
getCosmosBalance ==
    {FetchFailed} \cup
    { Fetched(b) :
        b \in UNION { [1..n -> { Response(d, a) : d \in ResponseDenoms,
                                                  a \in ResponseAmounts }] :
                      n \in 0..MaxBalances } }

\* The type switch of main.
FetchBalance(v) ==
    IF v.Type = "ethereum" THEN getEthereumBalance
    ELSE IF v.Type = "cosmos" THEN getCosmosBalance
    ELSE {NotFetched}

\* strconv.ParseFloat(amount, 64)
ParseFloat(amount) ==
    CASE amount = "0" -> [ok |-> TRUE, val |-> 0]
      [] amount = "1" -> [ok |-> TRUE, val |-> 1]
      [] amount = "2" -> [ok |-> TRUE, val |-> 2]
      [] amount = "3" -> [ok |-> TRUE, val |-> 3]
      \* the decimal floating-point forms are accepted: "3e0" is 3
      [] amount = "3e0" -> [ok |-> TRUE, val |-> 3]
      [] OTHER -> [ok |-> FALSE, val |-> 0]

\* The loop of parseBalanceResponse from entry n on, with the balance and
\* resultGood found so far.
RECURSIVE scanBalances(_, _, _, _, _)
scanBalances(balances, n, denom, balance, resultGood) ==
    IF n > Len(balances)
    THEN IF resultGood
         THEN [balance |-> balance, err |-> "nil", resultGood |-> TRUE]
         ELSE [balance |-> 0, err |-> "denom mismatch", resultGood |-> FALSE]
    ELSE IF balances[n].Denom = denom
         THEN LET p == ParseFloat(balances[n].Amount)
              IN  IF p.ok
                  THEN scanBalances(balances, n + 1, denom, p.val, TRUE)
                  ELSE [balance |-> 0, err |-> "convert",
                        resultGood |-> resultGood]
         ELSE scanBalances(balances, n + 1, denom, balance, resultGood)

\* An extraction that reports balance 0 when no entry has the denom.
parseBalanceResponseZero(responses, network) ==
    LET found == scanBalances(responses.Balances, 1, network.Denom, 0, FALSE)
    IN  IF found.err = "denom mismatch"
        THEN [balance |-> 0, err |-> "nil", resultGood |-> TRUE]
        ELSE found

\* parseBalanceResponse(responses, network) for a non-nil responses.
parseBalanceResponse(responses, network) ==
    scanBalances(responses.Balances, 1, network.Denom, 0, FALSE)

\* History: the Amount string that decided parseBalanceResponse: the first
\* one of the network's denom that ParseFloat rejects, else the last one of
\* that denom ("none" when no entry has it).
DecidingAmount(balances, denom) ==
    LET match == {e \in DOMAIN balances : balances[e].Denom = denom}
        bad == {e \in match : ~ParseFloat(balances[e].Amount).ok}
    IN  IF match = {} THEN "none"
        ELSE IF bad # {}
        THEN balances[CHOOSE e \in bad : \A f \in bad : e <= f].Amount
        ELSE balances[CHOOSE e \in match : \A f \in match : e >= f].Amount

\* What lines 113-142 of main make of one fetch: the fetch error, the nil
\* responses of an unsupported type, the error of parseBalanceResponse, or
\* "ok" with the balance.
PollOutcome(r, v) ==
    IF ~r.returns
    THEN [outcome |-> "blocked", balance |-> 0, result |-> r.result,
          decided |-> "none"]
    ELSE IF r.err
    THEN [outcome |-> "fetch error", balance |-> 0, result |-> r.result,
          decided |-> "none"]
    ELSE IF r.nil
    THEN [outcome |-> "nil responses", balance |-> 0, result |-> r.result,
          decided |-> "none"]
    ELSE LET parsed == parseBalanceResponse(r, v)
             decided == DecidingAmount(r.Balances, v.Denom)
         IN  IF parsed.err # "nil"
             THEN [outcome |-> parsed.err, balance |-> 0,
                   result |-> r.result, decided |-> decided]
             ELSE [outcome |-> "ok", balance |-> parsed.balance,
                   result |-> r.result, decided |-> decided]

PollOutcomes(v) == { PollOutcome(r, v) : r \in FetchBalance(v) }

\* PollOutcomes reads the Type and the Denom of the network only: the
\* table of its values over the configured (Type, Denom) pairs.
PollOutcomeTable ==
    [td \in { <<n.Type, n.Denom>> : n \in ConfigNetworks } |->
        PollOutcomes([Type |-> td[1], Denom |-> td[2]])]

(* ------------------- the balance of an ethereum account --------------- *)
\* The conversion of lines 436-441 and 480 digit by digit.  A hex string is
\* the sequence of its digits (0..15) after TrimPrefix, a big.Int is the
\* sequence of its base-16 digits, a decimal string is the sequence of its
\* digits and the whole number a float64 holds is the sequence of its bits;
\* the most significant digit comes first and the number 0 has no digits.
RECURSIVE StripZeros(_)
StripZeros(digits) ==
    IF digits = <<>> THEN <<>>
    ELSE IF Head(digits) = 0 THEN StripZeros(Tail(digits))
    ELSE digits

RECURSIVE Reverse(_)
Reverse(digits) ==
    IF digits = <<>> THEN <<>>
    ELSE Reverse(Tail(digits)) \o <<Head(digits)>>

\* new(big.Int).SetString(hexStr, 16) for a string of hex digits.
SetString(hex) == StripZeros(hex)

\* 16 * n + carry on decimal digits, least significant digit first.
RECURSIVE TimesSixteenPlus(_, _)
TimesSixteenPlus(lsbFirst, carry) ==
    IF lsbFirst = <<>>
    THEN IF carry = 0 THEN <<>>
         ELSE <<carry % 10>> \o TimesSixteenPlus(<<>>, carry \div 10)
    ELSE LET x == 16 * Head(lsbFirst) + carry
         IN  <<x % 10>> \o TimesSixteenPlus(Tail(lsbFirst), x \div 10)

RECURSIVE ToDecimalDigits(_, _)
ToDecimalDigits(big, lsbFirst) ==
    IF big = <<>> THEN lsbFirst
    ELSE ToDecimalDigits(Tail(big), TimesSixteenPlus(lsbFirst, Head(big)))

\* dec.String(): the base-10 digits of the big.Int.
BigIntString(big) ==
    IF big = <<>> THEN <<0>> ELSE Reverse(ToDecimalDigits(big, <<>>))

\* The digits of n \div 16, given the remainder carried into the first one.
RECURSIVE QuotientBySixteen(_, _)
QuotientBySixteen(digits, rem) ==
    IF digits = <<>> THEN <<>>
    ELSE LET x == 10 * rem + Head(digits)
         IN  <<x \div 16>> \o QuotientBySixteen(Tail(digits), x % 16)

\* n % 16 for decimal digits, given the remainder so far.
RECURSIVE RemainderBySixteen(_, _)
RemainderBySixteen(digits, rem) ==
    IF digits = <<>> THEN rem
    ELSE RemainderBySixteen(Tail(digits), (10 * rem + Head(digits)) % 16)

\* The whole number a string of decimal digits denotes, in base 16.
RECURSIVE DecimalToHex(_)
DecimalToHex(digits) ==
    LET d == StripZeros(digits)
    IN  IF d = <<>> THEN <<>>
        ELSE DecimalToHex(QuotientBySixteen(d, 0))
                 \o <<RemainderBySixteen(d, 0)>>

RECURSIVE HexToBits(_)
HexToBits(hex) ==
    IF hex = <<>> THEN <<>>
    ELSE LET d == Head(hex)
         IN  <<d \div 8, (d \div 4) % 2, (d \div 2) % 2, d % 2>>
                 \o HexToBits(Tail(hex))

\* The bits of a whole number given in base 16.
Bits(hex) == StripZeros(HexToBits(hex))

RECURSIVE PlusOne(_)
PlusOne(bits) ==
    IF bits = <<>> THEN <<1>>
    ELSE LET front == SubSeq(bits, 1, Len(bits) - 1)
         IN  IF bits[Len(bits)] = 0 THEN front \o <<1>>
             ELSE PlusOne(front) \o <<0>>

\* The nearest float64 to a whole number (IEEE 754 round to nearest, ties
\* to even): the first MantissaBits bits are kept, rounded by the rest.
RoundToFloat64(bits) ==
    IF Len(bits) <= MantissaBits THEN bits
    ELSE LET kept == SubSeq(bits, 1, MantissaBits)
             rest == SubSeq(bits, MantissaBits + 1, Len(bits))
             sticky == \E n \in 2..Len(rest) : rest[n] = 1
             up == rest[1] = 1 /\ (sticky \/ kept[MantissaBits] = 1)
         IN  (IF up THEN PlusOne(kept) ELSE kept)
                 \o [n \in 1..Len(rest) |-> 0]

\* strconv.ParseFloat(amount, 64) for a string of decimal digits.
ParseFloat64(digits) == RoundToFloat64(Bits(DecimalToHex(digits)))

\* The hex balances converted: small ones, ones from 2^53 on, and ones from
\* 0xde0b6b3a7640000 = 10^18 on.
HexBases ==
    { <<>>,
      <<2, 0, 0, 0, 0, 0, 0, 0, 0, 0, 0, 0>>,
      <<13, 14, 0, 11, 6, 11, 3, 10, 7, 6, 4, 0, 0>> }

HexInputs ==
    { StripZeros(b \o <<t \div 16, t % 16>>) :
        b \in HexBases, t \in 0..MaxOffset }

(* ------------------------------ RPC health ---------------------------- *)
\* check_rpc_health divides by THRESHOLD: a run-time panic when it is 0.
HealthPanics(threshold) == threshold = 0

\* A health check that alerts on every failure from the threshold on.
check_rpc_healthAtLeast(rpcDown, threshold) == rpcDown >= threshold

\* The condition of check_rpc_health, for THRESHOLD # 0.
check_rpc_health(rpcDown, threshold) ==
    GoRem(rpcDown, threshold) = 0 /\ rpcDown # 0

\* A test that takes the threshold itself for "not yet reported down".
RpcBackUpAbove(rpcDown, threshold) == rpcDown > threshold

\* The test before the "good" RPC alert on a successful poll.
RpcBackUp(rpcDown, threshold) == rpcDown >= threshold

\* A failed poll that counts the failure and also forgets the Down flag.
RecordFailureAndClear(nets, k, i) ==
    [nets EXCEPT ![k].Accounts[i].RPC_down = @ + 1,
                 ![k].Accounts[i].Down = FALSE]

\* networks.Network[k].Accounts[i].RPC_down++ of a failed poll.
RecordFailure(nets, k, i) ==
    [nets EXCEPT ![k].Accounts[i].RPC_down = @ + 1]

\* An end of a successful poll that leaves the counter as it is.
ResetRPCDownSkipped(nets, k, i) == nets

\* networks.Network[k].Accounts[i].RPC_down = 0 at the end of a successful
\* poll.
ResetRPCDown(nets, k, i) ==
    [nets EXCEPT ![k].Accounts[i].RPC_down = 0]

(* ----------------------------- price lookup --------------------------- *)
\* What one request to the price API gives: a transport error, the body
\* "{}", a body with a usd rate, or a body that is something else.
PriceReplies == {"error", "{}", "rate", "garbage"}

\* fetchPrice: after a transport error resp is nil and resp.Body is a nil
\* pointer dereference.  On "{}" the request is repeated with "-network".
fetchPrice(r1, r2) ==
    [panics |-> r1 = "error" \/ (r1 = "{}" /\ r2 = "error"),
     body |-> IF r1 = "{}" THEN r2 ELSE r1]

\* fetchPrice over every pair of replies of the price API.
PriceResults == { fetchPrice(r1, r2) : r1, r2 \in PriceReplies }

getValue(body) == IF body = "rate" THEN "~USD" ELSE "N/A USD"

(* ------------------------------ the alerts ---------------------------- *)
\* One message handed to http.Post; delivered tells whether Post succeeded.
alertRPC(status, delivered) ==
    [kind |-> "rpc", status |-> status, value |-> "", delivered |-> delivered]

alertBalance(status, value, delivered) ==
    [kind |-> "balance", status |-> status, value |-> value,
     delivered |-> delivered]

\* The balance branch of main (lines 148-168) as a decision.
LowFunds(balance, account) == balance < account.Balance_threshold

\* A "low funds" decision that is taken again on every poll below the
\* threshold.
AlertsLowAgain(balance, account) == LowFunds(balance, account)

\* alertBalance("bad") is called when the balance is low and the account
\* is not flagged yet.
AlertsLow(balance, account) ==
    LowFunds(balance, account) /\ ~account.Down
ToppedUp(balance, account) ==
    balance > account.Balance_threshold /\ account.Down

(* ------------------------------- state -------------------------------- *)
VARIABLES
    networks,      \* main's networks: configuration and run-time fields
    placeholder,   \* history: placeholder_networks as initialiseNetworks
                   \* returned it, if the latest step was the reload
    THRESHOLD,     \* the process-wide failure threshold, in cycles
    issues,        \* main's issues flag of the current cycle
    pc,            \* "reload", "poll", "finish", "crashed", or "blocked"
                   \* (inside a fetch that never returns)
    kIdx,          \* k of the range over networks.Network (1-based)
    iIdx,          \* i of the range over v.Accounts (1-based)
    panic,         \* the run-time panic that ended the process, or "none"
    alerts,        \* history: the messages posted by the latest step
    last,          \* history: what the latest step was and what it saw
    loadFailed,    \* history: the latest initialiseNetworks() could not
                   \* read networks.json
    streak,        \* history: per position, the length of the current run
                   \* of Failed polls that began with RPC_down = 0 (0 when
                   \* no such run is under way)
    flagged,       \* history: per position, the latest balance message
                   \* posted for it was "low funds" (FALSE when none was)
    reported,      \* history: per position, an RPC "down" message was
                   \* posted in the run of Failed polls now under way
    hexStr,        \* getEthereumBalance's hexStr, as hex digits
    decStr,        \* the Amount string it returns, as decimal digits
    balance64      \* parseBalanceResponse's balance, as the bits of the
                   \* whole number the float64 holds

\* The variables of one conversion of an ethereum balance.
conv == <<hexStr, decStr, balance64>>

vars == <<networks, placeholder, THRESHOLD, issues, pc, kIdx, iIdx, panic,
          alerts, last, loadFailed, streak, flagged, reported, conv>>

\* down is the account's Down flag as the step found it.
Step(op, outcome, balance, down, changed) ==
    [op |-> op, k |-> kIdx, i |-> iIdx, outcome |-> outcome,
     balance |-> balance, down |-> down, T |-> THRESHOLD,
     changed |-> changed, result |-> "none", decided |-> "none"]

\* A loop head with the assignment hoisted out of the loop: THRESHOLD is
\* taken from the first network for all of them.
RECURSIVE EnterNetworkHoisted(_, _, _)
EnterNetworkHoisted(nets, n, threshold) ==
    IF n > Len(nets)
    THEN [pc |-> "finish", k |-> 0, i |-> 0, T |-> threshold]
    ELSE LET t == GoInt(nets[1].Bad_request_threshold, INTERVAL)
         IN  IF Len(nets[n].Accounts) = 0
             THEN EnterNetworkHoisted(nets, n + 1, t)
             ELSE [pc |-> "poll", k |-> n, i |-> 1, T |-> t]

\* The head of "for k, v := range networks.Network": THRESHOLD is set from
\* network k, then its accounts are ranged over; a network without accounts
\* is passed, and past the last network the cycle is finished.
RECURSIVE EnterNetwork(_, _, _)
EnterNetwork(nets, n, threshold) ==
    IF n > Len(nets)
    THEN [pc |-> "finish", k |-> 0, i |-> 0, T |-> threshold]
    ELSE LET t == GoInt(nets[n].Bad_request_threshold, INTERVAL)
         IN  IF Len(nets[n].Accounts) = 0
             THEN EnterNetwork(nets, n + 1, t)
             ELSE [pc |-> "poll", k |-> n, i |-> 1, T |-> t]

\* Where control is once account iIdx of network kIdx is done.
Continue ==
    IF iIdx < Len(networks[kIdx].Accounts)
    THEN [pc |-> "poll", k |-> kIdx, i |-> iIdx + 1, T |-> THRESHOLD]
    ELSE EnterNetwork(networks, kIdx + 1, THRESHOLD)

Goto(e) ==
    /\ pc' = e.pc
    /\ kIdx' = e.k
    /\ iIdx' = e.i
    /\ THRESHOLD' = e.T
    /\ panic' = panic

Crash(cause) ==
    /\ pc' = "crashed"
    /\ panic' = cause
    /\ UNCHANGED <<kIdx, iIdx, THRESHOLD>>

\* A field of the freshly loaded configuration, other than the run-time
\* fields, differs from the previous snapshot at a position both have.
ConfigChanged(current, loaded) ==
    \E p \in Positions(current) \cap Positions(loaded) :
        \/ [current[p[1]] EXCEPT !.Accounts = <<>>]
              # [loaded[p[1]] EXCEPT !.Accounts = <<>>]
        \/ current[p[1]].Accounts[p[2]].Address
              # loaded[p[1]].Accounts[p[2]].Address
        \/ current[p[1]].Accounts[p[2]].Balance_threshold
              # loaded[p[1]].Accounts[p[2]].Balance_threshold

(* ------------------------------- Init --------------------------------- *)
\* networks := initialiseNetworks(), before the first pass of the loop.
Init ==
    /\ \E file \in ConfigFiles :
          /\ networks = initialiseNetworks(file)
          /\ loadFailed = ~file.readable
    /\ placeholder = <<>>
    /\ THRESHOLD = 0
    /\ issues = FALSE
    /\ pc = "reload"
    /\ kIdx = 0
    /\ iIdx = 0
    /\ panic = "none"
    /\ alerts = <<>>
    /\ last = [op |-> "start", k |-> 0, i |-> 0, outcome |-> "none",
               balance |-> 0, down |-> FALSE, T |-> 0,
               changed |-> FALSE, result |-> "none", decided |-> "none"]
    /\ streak = [p \in Positions(networks) |-> 0]
    /\ flagged = [p \in Positions(networks) |-> FALSE]
    /\ reported = [p \in Positions(networks) |-> FALSE]
    /\ hexStr = <<>>
    /\ decStr = <<>>
    /\ balance64 = <<>>

(* ------------------------------ actions ------------------------------- *)
\* checkConfigUpdates(&networks) at the top of the loop, "var issues bool",
\* and the entry into the range over the networks.
Reload ==
    /\ pc = "reload"
    /\ \E file \in ConfigFiles :
        LET loaded == initialiseNetworks(file)
        IN  /\ placeholder' = loaded
            /\ loadFailed' = ~file.readable
            /\ last' = Step("reload", "none", 0, FALSE,
                            ConfigChanged(networks, loaded))
            /\ alerts' = <<>>
            /\ UNCHANGED conv
            /\ IF MergePanics(networks, loaded)
               THEN /\ Crash("index out of range")
                    /\ UNCHANGED <<networks, issues, streak>>
                    /\ UNCHANGED <<flagged, reported>>
               ELSE LET merged == checkConfigUpdates(networks, loaded)
                    IN  /\ networks' = merged
                        /\ issues' = FALSE
                        /\ streak' = [p \in Positions(merged) |-> streak[p]]
                        /\ flagged' = [p \in Positions(merged) |->
                                          flagged[p]]
                        /\ reported' = [p \in Positions(merged) |->
                                           reported[p]]
                        /\ Goto(EnterNetwork(merged, 1, THRESHOLD))

\* Lines 120-130 and 136-142: the poll failed (fetch error, or an error of
\* parseBalanceResponse).  delivered: whether the post of the RPC message,
\* if one is due, succeeded.
FailedPoll(account, cause, decided) ==
    LET counted == RecordFailure(networks, kIdx, iIdx)
        n == counted[kIdx].Accounts[iIdx].RPC_down
    IN  /\ account.RPC_down < MaxFailures
        /\ networks' = counted
        /\ issues' = TRUE
        /\ streak' = [streak EXCEPT ![<<kIdx, iIdx>>] =
                        IF account.RPC_down = 0 THEN 1
                        ELSE IF @ > 0 THEN @ + 1 ELSE 0]
        /\ last' = [Step("poll", cause, 0, account.Down, FALSE)
                        EXCEPT !.decided = decided]
        /\ UNCHANGED flagged
        /\ IF HealthPanics(THRESHOLD)
           THEN /\ alerts' = <<>>
                /\ UNCHANGED reported
                /\ Crash("integer divide by zero")
           ELSE IF check_rpc_health(n, THRESHOLD)
           THEN /\ \E delivered \in BOOLEAN :
                      alerts' = <<alertRPC("bad", delivered)>>
                /\ reported' = [reported EXCEPT ![<<kIdx, iIdx>>] = TRUE]
                /\ Goto(Continue)
           ELSE /\ alerts' = <<>>
                /\ UNCHANGED reported
                /\ Goto(Continue)

\* Lines 143-170: fetch and extraction succeeded with this balance.
\* The replies of the price API and the success of each post are inputs
\* of the calls that are made.
GoodPoll(v, account, balance, result, decided) ==
    LET backUp == RpcBackUp(account.RPC_down, THRESHOLD)
        low == LowFunds(balance, account)
        sendsBad == AlertsLow(balance, account)
        sendsGood == ~low /\ ToppedUp(balance, account)
        \* v.Denom[1:] in the log lines 152 and 166
        slices == (low /\ v.Denom # "wei") \/ sendsGood
        rpcDownAtPanic == IF backUp THEN 0 ELSE account.RPC_down
        downAtPanic == IF sendsGood THEN FALSE ELSE account.Down
        atPanic == [networks EXCEPT
                      ![kIdx].Accounts[iIdx].RPC_down = rpcDownAtPanic,
                      ![kIdx].Accounts[iIdx].Down = downAtPanic]
    IN  /\ last' = [Step("poll", "ok", balance, account.Down, FALSE)
                        EXCEPT !.result = result, !.decided = decided]
        /\ UNCHANGED issues
        /\ \E d1 \in IF backUp THEN BOOLEAN ELSE {FALSE} :
            LET rpcAlerts == IF backUp THEN <<alertRPC("good", d1)>>
                             ELSE <<>>
            IN  IF slices /\ v.Denom = ""
                THEN /\ networks' = atPanic
                     /\ alerts' = rpcAlerts
                     /\ UNCHANGED <<streak, flagged, reported>>
                     /\ Crash("slice bounds out of range")
                ELSE IF sendsBad \/ sendsGood
                THEN \E price \in PriceResults, d2 \in BOOLEAN :
                       IF price.panics
                       THEN /\ networks' = atPanic
                            /\ alerts' = rpcAlerts
                            /\ UNCHANGED <<streak, flagged, reported>>
                            /\ Crash("nil pointer dereference")
                       ELSE /\ networks' = ResetRPCDown(
                                 [atPanic EXCEPT
                                    ![kIdx].Accounts[iIdx].Down = sendsBad],
                                 kIdx, iIdx)
                            /\ alerts' = Append(rpcAlerts,
                                 alertBalance(IF sendsBad THEN "bad"
                                              ELSE "good",
                                              getValue(price.body), d2))
                            /\ streak' = [streak EXCEPT
                                            ![<<kIdx, iIdx>>] = 0]
                            /\ flagged' = [flagged EXCEPT
                                             ![<<kIdx, iIdx>>] = sendsBad]
                            /\ reported' = [reported EXCEPT
                                              ![<<kIdx, iIdx>>] = FALSE]
                            /\ Goto(Continue)
                ELSE /\ networks' = ResetRPCDown(atPanic, kIdx, iIdx)
                     /\ alerts' = rpcAlerts
                     /\ streak' = [streak EXCEPT ![<<kIdx, iIdx>>] = 0]
                     /\ UNCHANGED flagged
                     /\ reported' = [reported EXCEPT
                                       ![<<kIdx, iIdx>>] = FALSE]
                     /\ Goto(Continue)

\* One pass of the body of "for i, account := range v.Accounts".
PollAccount ==
    /\ pc = "poll"
    /\ LET v == networks[kIdx]
           account == v.Accounts[iIdx]
       IN  \E o \in PollOutcomeTable[<<v.Type, v.Denom>>] :
             IF o.outcome = "blocked"
             THEN \* main waits for the fetch from here on
                  /\ last' = Step("poll", "blocked", 0, account.Down, FALSE)
                  /\ alerts' = <<>>
                  /\ pc' = "blocked"
                  /\ UNCHANGED <<kIdx, iIdx, THRESHOLD, panic>>
                  /\ UNCHANGED <<networks, issues, streak>>
                  /\ UNCHANGED <<flagged, reported>>
             ELSE IF o.outcome = "nil responses"
             THEN \* parseBalanceResponse dereferences the nil responses
                  /\ last' = Step("poll", "nil responses", 0, account.Down,
                                  FALSE)
                  /\ alerts' = <<>>
                  /\ Crash("nil pointer dereference")
                  /\ UNCHANGED <<networks, issues, streak>>
                  /\ UNCHANGED <<flagged, reported>>
             ELSE IF o.outcome # "ok"
             THEN FailedPoll(account, o.outcome, o.decided)
             ELSE GoodPoll(v, account, o.balance, o.result, o.decided)
    /\ placeholder' = <<>>
    /\ UNCHANGED <<loadFailed, conv>>

\* finishLog(issues) and time.Sleep: the end of the cycle.
Finish ==
    /\ pc = "finish"
    /\ pc' = "reload"
    /\ last' = Step("finish", IF issues THEN "problems" ELSE "all good",
                    0, FALSE, FALSE)
    /\ alerts' = <<>>
    /\ placeholder' = <<>>
    /\ UNCHANGED <<loadFailed, conv>>
    /\ UNCHANGED <<networks, THRESHOLD, issues, kIdx, iIdx, panic, streak>>
    /\ UNCHANGED <<flagged, reported>>

Next == Reload \/ PollAccount \/ Finish

Spec == Init /\ [][Next]_vars

\* main is the only goroutine and is always scheduled: a step that can be
\* taken (the sleep ending, a call returning) is taken.
FairSpec == Spec /\ WF_vars(Next)

(* ---------------- the conversion of one ethereum balance -------------- *)
\* One reply of eth_getBalance carried through getEthereumBalance and
\* parseBalanceResponse; pc is "hex", "decimal" or "float".  The variables
\* of the monitoring loop stay as they are before the first load.
ConvInit ==
    /\ hexStr \in HexInputs
    /\ decStr = <<>>
    /\ balance64 = <<>>
    /\ pc = "hex"
    /\ networks = <<>>
    /\ placeholder = <<>>
    /\ THRESHOLD = 0
    /\ issues = FALSE
    /\ kIdx = 0
    /\ iIdx = 0
    /\ panic = "none"
    /\ alerts = <<>>
    /\ last = [op |-> "start", k |-> 0, i |-> 0, outcome |-> "none",
               balance |-> 0, down |-> FALSE, T |-> 0,
               changed |-> FALSE, result |-> "none", decided |-> "none"]
    /\ loadFailed = FALSE
    /\ streak = <<>>
    /\ flagged = <<>>
    /\ reported = <<>>

\* Lines 436-441: dec.SetString(hexStr, 16), Amount: dec.String().
ToDecimal ==
    /\ pc = "hex"
    /\ decStr' = BigIntString(SetString(hexStr))
    /\ pc' = "decimal"
    /\ UNCHANGED <<hexStr, balance64>>
    /\ UNCHANGED <<networks, placeholder, THRESHOLD, issues, kIdx, iIdx,
                   panic, alerts, last, loadFailed, streak, flagged,
                   reported>>

\* Line 480: balance, err = strconv.ParseFloat(result.Amount, 64).
ToFloat ==
    /\ pc = "decimal"
    /\ balance64' = ParseFloat64(decStr)
    /\ pc' = "float"
    /\ UNCHANGED <<hexStr, decStr>>
    /\ UNCHANGED <<networks, placeholder, THRESHOLD, issues, kIdx, iIdx,
                   panic, alerts, last, loadFailed, streak, flagged,
                   reported>>

ConvNext == ToDecimal \/ ToFloat

ConvSpec == ConvInit /\ [][ConvNext]_vars

(* ------------------------------ claims -------------------------------- *)
FailedOutcomes == {"fetch error", "denom mismatch", "convert"}

\* The latest step posted a message of this kind and status.
Sent(kind, status) ==
    \E n \in DOMAIN alerts :
        alerts[n].kind = kind /\ alerts[n].status = status

\* The account the latest poll was about, and the threshold in cycles that
\* its network's Bad_request_threshold gives.
Polled == networks[last.k].Accounts[last.i]
PolledThreshold == GoInt(networks[last.k].Bad_request_threshold, INTERVAL)

C2_AlertsExactlyOnEdges ==
    (/\ last.op = "poll"
     /\ last.outcome = "ok"
     /\ pc # "crashed")
    => /\ Sent("balance", "bad")
            <=> (last.balance < Polled.Balance_threshold /\ ~last.down)
       /\ Sent("balance", "good")
            <=> (last.balance >= Polled.Balance_threshold /\ last.down)

\* C3: a reload that returns leaves, at every position the previous
\* snapshot and the loaded configuration share, RPC_down and Down as they
\* were and every other field as loaded.
C3_MergeIsPositional ==
    [][(pc = "reload" /\ pc' # "crashed")
       => \A p \in Positions(networks) \cap Positions(placeholder') :
            LET old == networks[p[1]].Accounts[p[2]]
                new == networks'[p[1]].Accounts[p[2]]
                fresh == placeholder'[p[1]].Accounts[p[2]]
            IN  /\ new.RPC_down = old.RPC_down
                /\ new.Down = old.Down
                /\ new.Address = fresh.Address
                /\ new.Balance_threshold = fresh.Balance_threshold
                /\ [networks'[p[1]] EXCEPT !.Accounts = <<>>]
                      = [placeholder'[p[1]] EXCEPT !.Accounts = <<>>]]_vars

\* A reload changed the configuration under an account that is down and
\* has failed polls behind it: the first position now holds another
\* address and threshold, with the counter and the flag kept.
C3_Witness ==
    /\ last.op = "reload"
    /\ pc = "poll"
    /\ last.changed
    /\ networks[1].Accounts[1].Address = "a2"
    /\ networks[1].Accounts[1].Balance_threshold = 3
    /\ networks[1].Accounts[1].RPC_down = 2
    /\ networks[1].Accounts[1].Down

\* C4: on a network whose derived threshold is <= 0 a Failed poll does not
\* crash and posts the RPC "down" message.
C4_ZeroThresholdAlertsEveryFailure ==
    (/\ last.op = "poll"
     /\ last.outcome \in FailedOutcomes
     /\ PolledThreshold <= 0)
    => (pc # "crashed" /\ Sent("rpc", "bad"))

\* C5: a successful poll of an account that is Down with a balance equal to
\* minBalance posts "replenished" and clears Down.
C5_EqualBalanceRestores ==
    (/\ last.op = "poll"
     /\ last.outcome = "ok"
     /\ last.down
     /\ last.balance = Polled.Balance_threshold)
    => (Sent("balance", "good") /\ ~Polled.Down)

\* Every reply without an entry of the network's denom, the empty one
\* included, is the mismatch error and balance 0 is not handed on.
MismatchAlwaysFails ==
    \A n \in ConfigNetworks : \A r \in FetchBalance(n) :
        (/\ ~r.err
         /\ ~r.nil
         /\ \A e \in DOMAIN r.Balances : r.Balances[e].Denom # n.Denom)
        => /\ PollOutcome(r, n).outcome = "denom mismatch"
           /\ PollOutcome(r, n).balance = 0

\* C6: a reply with no entry of the network's denom is a mismatch error,
\* and a poll that ends in it adds 1 to RPC_down, leaves Down as it was and
\* posts no balance message.
C6_MismatchIsFailure ==
    [][/\ MismatchAlwaysFails
       /\ (last'.op = "poll" /\ last'.outcome = "denom mismatch")
          => /\ networks'[kIdx].Accounts[iIdx].RPC_down
                   = networks[kIdx].Accounts[iIdx].RPC_down + 1
             /\ networks'[kIdx].Accounts[iIdx].Down
                   = networks[kIdx].Accounts[iIdx].Down
             /\ ~\E n \in DOMAIN alerts' : alerts'[n].kind = "balance"]_vars

\* A poll ended in the mismatch error for an account that is not down.
C6_Witness ==
    /\ last.op = "poll"
    /\ last.outcome = "denom mismatch"
    /\ Polled.RPC_down = 1
    /\ ~Polled.Down
    /\ alerts = <<>>

\* C7: a Failed poll of an account that is not the last of the cycle leaves
\* main at the next account, and the other accounts as they were.
C7_FailureIsIsolated ==
    [][(/\ last'.op = "poll"
        /\ last'.outcome \in FailedOutcomes
        /\ Continue.pc = "poll")
       => /\ pc' = "poll"
          /\ <<kIdx', iIdx'>> = <<Continue.k, Continue.i>>
          /\ \A p \in Positions(networks) \ {<<kIdx, iIdx>>} :
                networks'[p[1]].Accounts[p[2]]
                    = networks[p[1]].Accounts[p[2]]]_vars

\* C8: the poll of an account on a network that is neither "ethereum" nor
\* "cosmos" is a Failed poll and not a crash.
C8_UnsupportedKindIsFailure ==
    (last.op = "poll" /\ networks[last.k].Type \notin {"ethereum", "cosmos"})
    => (pc # "crashed" /\ last.outcome \in FailedOutcomes)

\* C9: the reload that follows a load that could not read networks.json
\* does not crash, whatever the file holds by then.
C9_LoadFailureIsNotFatal ==
    [][(pc = "reload" /\ loadFailed) => pc' # "crashed"]_vars

\* C10: a reload whose configuration has a position the previous, non-empty
\* snapshot lacks does not crash, and every such position starts with
\* RPC_down = 0 and Down = false.
C10_GrowingConfigMerges ==
    [][(/\ pc = "reload"
        /\ Positions(networks) # {}
        /\ ~(Positions(placeholder') \subseteq Positions(networks)))
       => /\ pc' # "crashed"
          /\ \A p \in Positions(networks') \ Positions(networks) :
                /\ networks'[p[1]].Accounts[p[2]].RPC_down = 0
                /\ ~networks'[p[1]].Accounts[p[2]].Down]_vars

\* C11: the poll of an ethereum account whose reply carries no result, or a
\* result that is not a hex number, is a Failed poll: RPC_down is counted
\* up, no balance (0 in particular) is compared with Balance_threshold and
\* no "low funds" message is posted.
C11_BadReplyIsFailure ==
    (last.op = "poll" /\ last.result \in {"", "0xzz"})
    => /\ last.outcome \in FailedOutcomes
       /\ Polled.RPC_down > 0
       /\ ~Sent("balance", "bad")

\* C12 as stated: a successful poll posts no RPC message, "down" or "back
\* up", whatever RPC_down and the threshold are.
C12_SuccessIsSilent ==
    (last.op = "poll" /\ last.outcome = "ok")
    => (~Sent("rpc", "good") /\ ~Sent("rpc", "bad"))

\* C12 amended: a successful poll never posts the RPC "down" message; it
\* posts the RPC "back up" message exactly when RPC_down, as the poll found
\* it, is at least the threshold in cycles of the account's network, at
\* most once, and a poll that main survives leaves RPC_down = 0.
C12_BackUpIffAtThreshold ==
    [][(last'.op = "poll" /\ last'.outcome = "ok")
       => /\ ~Sent("rpc", "bad")'
          /\ Sent("rpc", "good")'
               <=> (networks[kIdx].Accounts[iIdx].RPC_down
                      >= GoInt(networks[kIdx].Bad_request_threshold,
                               INTERVAL))
          /\ Cardinality({n \in DOMAIN alerts' :
                             alerts'[n].kind = "rpc"}) <= 1
          /\ pc' # "crashed"
               => networks'[kIdx].Accounts[iIdx].RPC_down = 0]_vars

\* A successful poll under a threshold of 2 cycles posted "back up" and
\* nothing else, and the counter is back at 0.
C12_Witness ==
    /\ last.op = "poll"
    /\ last.outcome = "ok"
    /\ PolledThreshold = 2
    /\ Len(alerts) = 1
    /\ Sent("rpc", "good")
    /\ Polled.RPC_down = 0
    /\ pc # "crashed"

\* The balance of the latest poll is below the threshold of an account that
\* was not flagged, or above the threshold of one that was.
BalanceAlertDue ==
    \/ (last.balance < Polled.Balance_threshold /\ ~last.down)
    \/ (last.balance > Polled.Balance_threshold /\ last.down)

\* C13: a successful poll that has a balance message to build and gets no
\* usable price does not end the process: the message is posted with
\* "N/A USD" and the Down flag follows the balance.
C13_PriceFailureDegrades ==
    (/\ last.op = "poll"
     /\ last.outcome = "ok"
     /\ BalanceAlertDue
     /\ ~\E n \in DOMAIN alerts :
            alerts[n].kind = "balance" /\ alerts[n].value = "~USD")
    => /\ pc # "crashed"
       /\ \E n \in DOMAIN alerts :
            alerts[n].kind = "balance" /\ alerts[n].value = "N/A USD"
       /\ Polled.Down <=> (last.balance < Polled.Balance_threshold)

\* C14: a poll one of whose messages could not be posted leaves the state
\* the messages stand for: Down is true after "low funds", false after
\* "replenished", RPC_down is 0 after a successful poll that main survives
\* and a non-zero multiple of the threshold after "down"; no message is
\* posted twice; and a poll that finds the account flagged and the balance
\* still low posts no "low funds" again.
C14_DeliveryFailureKeepsState ==
    /\ (last.op = "poll" /\ \E n \in DOMAIN alerts : ~alerts[n].delivered)
       => /\ Sent("balance", "bad") => (Polled.Down /\ Polled.RPC_down = 0)
          /\ Sent("balance", "good") => (~Polled.Down /\ Polled.RPC_down = 0)
          /\ Sent("rpc", "bad")
               => /\ Polled.RPC_down > 0
                  /\ Polled.RPC_down % last.T = 0
                  /\ Polled.Down = last.down
          /\ \A n, m \in DOMAIN alerts :
                alerts[n].kind = alerts[m].kind => n = m
    /\ (/\ last.op = "poll"
        /\ last.outcome = "ok"
        /\ last.down
        /\ last.balance < Polled.Balance_threshold)
       => (~Sent("balance", "bad") /\ (pc # "crashed" => Polled.Down))

\* The "low funds" message of a poll could not be posted: the account is
\* flagged all the same.
C14_Witness ==
    /\ last.op = "poll"
    /\ last.outcome = "ok"
    /\ \E n \in DOMAIN alerts :
          /\ alerts[n].kind = "balance"
          /\ alerts[n].status = "bad"
          /\ ~alerts[n].delivered
    /\ Polled.Down
    /\ pc = "poll"

\* C15: after a successful poll that main survives RPC_down of the polled
\* account is 0, whatever the balance and the Down flag are.
C15_SuccessResetsCounter ==
    (last.op = "poll" /\ last.outcome = "ok" /\ pc # "crashed")
    => Polled.RPC_down = 0

\* A successful poll after three failures in a row found the balance low:
\* "back up" and "low funds" are posted and the counter is 0.
C15_Witness ==
    /\ last.op = "poll"
    /\ last.outcome = "ok"
    /\ last.T = 3
    /\ Sent("rpc", "good")
    /\ Sent("balance", "bad")
    /\ Polled.RPC_down = 0
    /\ pc # "crashed"

\* C16: every cycle that has begun polling reaches finishLog and the sleep,
\* unless a panic ends the process: no fetch holds main for ever.
C16_EveryCycleEnds ==
    (pc = "poll") ~> (pc = "finish" \/ pc = "crashed")

\* The decimal string of a converted balance denotes the number its hex
\* string denotes.
DecimalIsExact == DecimalToHex(decStr) = StripZeros(hexStr)

\* C17: once an eth_getBalance result is converted, the Amount string is
\* the base-10 form of the same whole number (0xde0b6b3a7640000 gives
\* "1000000000000000000") and the balance that is compared with
\* Balance_threshold is that number exactly.
C17_HexBalanceIsExact ==
    (pc = "float")
    => /\ DecimalIsExact
       /\ hexStr = <<13, 14, 0, 11, 6, 11, 3, 10, 7, 6, 4, 0, 0, 0, 0>>
            => decStr = <<1, 0, 0, 0, 0, 0, 0, 0, 0, 0,
                          0, 0, 0, 0, 0, 0, 0, 0, 0>>
       /\ balance64 = Bits(hexStr)

\* C18: before the first pass of the loop every account of the loaded
\* configuration has RPC_down = 0 and Down = false, whatever networks.json
\* holds.
C18_RuntimeFieldsStartClear ==
    (last.op = "start")
    => \A p \in Positions(networks) :
          /\ networks[p[1]].Accounts[p[2]].RPC_down = 0
          /\ ~networks[p[1]].Accounts[p[2]].Down

\* C19: a poll that ends in a fetch error or in an error of
\* parseBalanceResponse adds exactly 1 to RPC_down of the polled account,
\* leaves its Down flag as it was and posts no balance message.
C19_FailureOnlyCounts ==
    [][(last'.op = "poll" /\ last'.outcome \in FailedOutcomes)
       => /\ networks'[kIdx].Accounts[iIdx].RPC_down
                = networks[kIdx].Accounts[iIdx].RPC_down + 1
          /\ networks'[kIdx].Accounts[iIdx].Down
                = networks[kIdx].Accounts[iIdx].Down
          /\ ~\E n \in DOMAIN alerts' : alerts'[n].kind = "balance"]_vars

\* The poll of a flagged account ended in an amount that does not parse,
\* after a failure before it: the count is 2 and the flag is kept.
C19_Witness ==
    /\ last.op = "poll"
    /\ last.outcome = "convert"
    /\ last.down
    /\ Polled.Down
    /\ Polled.RPC_down = 2
    /\ streak[<<last.k, last.i>>] = 2

\* C20: while an account is polled THRESHOLD is the threshold in cycles of
\* that account's own network as the current configuration gives it, and
\* the RPC "down" message of a Failed poll is decided with that value.
C20_ThresholdIsTheNetworksOwn ==
    /\ (pc = "poll")
       => THRESHOLD = GoInt(networks[kIdx].Bad_request_threshold, INTERVAL)
    /\ (last.op = "poll")
       => /\ last.T = PolledThreshold
          /\ (last.outcome \in FailedOutcomes /\ pc # "crashed")
               => (Sent("rpc", "bad")
                     <=> (Polled.RPC_down # 0
                            /\ Polled.RPC_down % PolledThreshold = 0))

\* The account of a second network was reported down at the third failure
\* while the first network of the configuration has another threshold.
C20_Witness ==
    /\ last.op = "poll"
    /\ last.k = 2
    /\ last.T = 3
    /\ GoInt(networks[1].Bad_request_threshold, INTERVAL) # 3
    /\ Polled.RPC_down = 3
    /\ Sent("rpc", "bad")

\* The Amount strings that are base-10 integers.
Base10Integers == {"0", "1", "2", "3"}

\* C21: a poll whose entry of the network's denom carries an Amount that
\* is not a base-10 integer is a Failed poll: no balance is compared, the
\* Down flag stays as it was and no balance message is posted.
C21_NonIntegerAmountFails ==
    (/\ last.op = "poll"
     /\ last.decided # "none"
     /\ last.decided \notin Base10Integers)
    => /\ last.outcome \in FailedOutcomes
       /\ Polled.RPC_down > 0
       /\ Polled.Down = last.down
       /\ ~\E n \in DOMAIN alerts : alerts[n].kind = "balance"

\* C22: when a cycle has ended, the Down flag of every position is TRUE
\* exactly when the latest balance message posted for that position was
\* "low funds" (FALSE when none was ever posted).
C22_DownMirrorsLatestAlert ==
    (pc = "reload" /\ last.op = "finish")
    => \A p \in Positions(networks) :
          networks[p[1]].Accounts[p[2]].Down <=> flagged[p]

\* C23: the RPC "back up" message is posted for a position only if an RPC
\* "down" message was posted for it in the run of Failed polls that the
\* successful poll ends.
C23_BackUpFollowsDown ==
    [][(pc = "poll" /\ Sent("rpc", "good")') => reported[<<kIdx, iIdx>>]]_vars

====
